---- MODULE Spec2Model ----
(***************************************************************************)
(* Model of web_scraper.py: main() fetches one page, parses it, locates    *)
(* the first table of class table_class, extracts its rows into a grid of  *)
(* trimmed strings and exports the grid to a formatted workbook.           *)
(*                                                                         *)
(* Conventions.  Python's None is the empty tuple and a present value x is *)
(* the one-element tuple <<x>>.  A str is a tuple of one-character         *)
(* strings.  An HTML text is the tuple of its top-level nodes, so the      *)
(* empty body "" is <<>>; tables are flat (no table nested in a cell).     *)
(* The libraries are modelled as pandas 2.x / openpyxl 3.x / requests 2.x  *)
(* / bs4 4.x behave; HTTP status codes are the valid ones (100..599).      *)
(* A table has at most MaxRows tr and a tr at most MaxCols cells; with     *)
(* three rows pandas' padding of a short data row next to a full one       *)
(* appears as well.                                                        *)
(***************************************************************************)
EXTENDS Integers, Sequences, FiniteSets

VARIABLES pc, resp, gets, html_content, soup, table, data, wb, file, out,
          error, trace

vars == <<pc, resp, gets, html_content, soup, table, data, wb, file, out,
          error, trace>>

(* ---------------------------- bounds ----------------------------------- *)
MaxRows == 2
MaxCols == 2

(* ------------------------- Option values -------------------------------- *)
None == <<>>
Some(x) == <<x>>
Get(o) == o[1]

(* --------------------------- constants --------------------------------- *)
table_class == "tablaCat"
SheetTitle == "Table Data"

Whitespace == {" ", "\t"}

(* Raw cell texts offered by the page: whitespace only, and a text with    *)
(* leading, inner and trailing whitespace.                                 *)
RawTexts == { <<"\t">>, <<" ", "a", " ", "b", "\t">> }

SeqsUpTo(S, n) == UNION {[1..m -> S] : m \in 0..n}

RawRows == SeqsUpTo(RawTexts, MaxCols)

(* A second table of the page, whose content differs from every RawGrid    *)
(* row so that picking the wrong table is visible.                         *)
OtherTrs == << << <<"z">> >> >>

TableNode(classes, trs) == [tag |-> "table", class |-> classes, trs |-> trs]
ParaNode == [tag |-> "p", class |-> <<>>, trs |-> <<>>]

(* Page layouts: the nodes of the page in document order, tables still    *)
(* without rows.                                                           *)
Layouts ==
  { <<>>,
    << ParaNode >>,
    << TableNode(<<"other">>, <<>>) >>,
    << TableNode(<<"tablaCat">>, <<>>) >>,
    << ParaNode, TableNode(<<"wide", "tablaCat">>, <<>>) >>,
    << TableNode(<<"other">>, <<>>), TableNode(<<"tablaCat">>, <<>>) >>,
    << TableNode(<<"tablaCat">>, <<>>), TableNode(<<"tablaCat">>, <<>>) >> }

TablePositions(layout) == {i \in 1..Len(layout) : layout[i].tag = "table"}

(* The table at position k gets the rows g, every other table OtherTrs.    *)
Fill(layout, k, g) ==
  [i \in 1..Len(layout) |->
     IF layout[i].tag = "table"
     THEN [layout[i] EXCEPT !.trs = IF i = k THEN g ELSE OtherTrs]
     ELSE layout[i]]

StatusCodes == {200, 400, 404, 500, 503}

(* ------------------------- fetch_webpage -------------------------------- *)
Msg(text) == [text |-> text, exc |-> "", status |-> 0]
FetchFailedMsg(exc, status) ==
  [text |-> "Failed to fetch the web page: ", exc |-> exc, status |-> status]

(* requests raises HTTPError for 4xx and 5xx responses; the mutant lets    *)
(* client errors through.                                                  *)
RaiseForStatus_ServerOnly(status) == 500 <= status /\ status < 600

RaiseForStatus(status) == 400 <= status /\ status < 600

Init ==
  /\ pc = "start"
  /\ resp = None
  /\ gets = 0
  /\ html_content = None
  /\ soup = None
  /\ table = None
  /\ data = None
  /\ wb = None
  /\ file = None
  /\ out = <<>>
  /\ error = "none"
  /\ trace = <<>>

FetchWebpage ==
  /\ pc = "start"
  /\ gets' = gets + 1
  /\ \E neterr \in BOOLEAN, status \in StatusCodes :
       IF neterr
       THEN /\ resp' = Some([neterr |-> TRUE, status |-> 0])
            /\ out' = Append(out, FetchFailedMsg("ConnectionError", 0))
            /\ html_content' = None
       ELSE IF RaiseForStatus(status)
       THEN /\ resp' = Some([neterr |-> FALSE, status |-> status])
            /\ out' = Append(out, FetchFailedMsg("HTTPError", status))
            /\ html_content' = None
       ELSE /\ resp' = Some([neterr |-> FALSE, status |-> status])
            /\ out' = out
            /\ \E l \in Layouts, m \in 0..MaxRows :
                 \E k \in TablePositions(l) \cup {0}, g \in [1..m -> RawRows] :
                   html_content' = Some(Fill(l, k, g))
  /\ pc' = "fetched"
  /\ trace' = Append(trace, "fetch")
  /\ UNCHANGED <<soup, table, data, wb, file, error>>

(* ----------------------------- main ------------------------------------ *)
(* `if html_content:` is Python truthiness: None and "" are both false.    *)
Truthy(h) == h # None /\ Len(Get(h)) > 0

ReturnNoHtml ==
  /\ pc = "fetched"
  /\ ~Truthy(html_content)
  /\ pc' = "done"
  /\ UNCHANGED <<resp, gets, html_content, soup, table, data, wb, file, out,
                 error, trace>>

(* ---------------------------- parse_html -------------------------------- *)
BeautifulSoup(text) == [name |-> "[document]", contents |-> text]

ParseHtml ==
  /\ pc = "fetched"
  /\ Truthy(html_content)
  /\ soup' = Some(BeautifulSoup(Get(html_content)))
  /\ pc' = "parsed"
  /\ trace' = Append(trace, "parse")
  /\ UNCHANGED <<resp, gets, html_content, table, data, wb, file, out, error>>

(* ------------------- soup.find('table', class_=...) --------------------- *)
HasClass(node, cls) == \E i \in 1..Len(node.class) : node.class[i] = cls

Matches_AnyClass(node, tag, cls) == node.tag = tag

Matches(node, tag, cls) == node.tag = tag /\ HasClass(node, cls)

Find(doc, tag, cls) ==
  LET hits == {i \in 1..Len(doc.contents) : Matches(doc.contents[i], tag, cls)}
  IN IF hits = {} THEN None
     ELSE Some(doc.contents[CHOOSE i \in hits : \A j \in hits : i <= j])

Locate ==
  /\ pc = "parsed"
  /\ table' = Find(Get(soup), "table", table_class)
  /\ IF table' # None
     THEN /\ out' = Append(out, Msg("Table found!"))
          /\ pc' = "found"
     ELSE /\ out' = Append(out, Msg("Table not found."))
          /\ pc' = "done"
  /\ trace' = Append(trace, "locate")
  /\ UNCHANGED <<resp, gets, html_content, soup, data, wb, file, error>>

(* ------------------------ extract_table_data ---------------------------- *)
RECURSIVE LStrip(_)
LStrip(s) ==
  IF s = <<>> THEN s
  ELSE IF Head(s) \in Whitespace THEN LStrip(Tail(s)) ELSE s

RECURSIVE RStrip(_)
RStrip(s) ==
  IF s = <<>> THEN s
  ELSE IF s[Len(s)] \in Whitespace THEN RStrip(SubSeq(s, 1, Len(s) - 1)) ELSE s

Strip_LeftOnly(s) == LStrip(s)

Strip(s) == RStrip(LStrip(s))

ExtractRow(tr) == [j \in 1..Len(tr) |-> Strip(tr[j])]

ExtractTableDataOf(t) == [i \in 1..Len(t.trs) |-> ExtractRow(t.trs[i])]

ExtractTableData ==
  /\ pc = "found"
  /\ data' = Some(ExtractTableDataOf(Get(table)))
  /\ pc' = "extracted"
  /\ trace' = Append(trace, "extract")
  /\ UNCHANGED <<resp, gets, html_content, soup, table, wb, file, out, error>>

(* -------------------------- pd.DataFrame -------------------------------- *)
Max(S) == CHOOSE x \in S : \A y \in S : y <= x

Pad(row, w) == [j \in 1..w |-> IF j <= Len(row) THEN Some(row[j]) ELSE None]

(* pandas builds an object array as wide as the longest data row, padding  *)
(* shorter rows with None, and raises ValueError when that width differs   *)
(* from the number of column labels; no data rows give an empty frame.     *)
DataFrame(rows, columns) ==
  IF rows = <<>>
  THEN [ok |-> TRUE, columns |-> columns, rows |-> <<>>]
  ELSE LET w == Max({Len(rows[i]) : i \in 1..Len(rows)})
       IN IF w # Len(columns)
          THEN [ok |-> FALSE, columns |-> columns, rows |-> <<>>]
          ELSE [ok |-> TRUE, columns |-> columns,
                rows |-> [i \in 1..Len(rows) |-> Pad(rows[i], w)]]

(* header row, then one row per frame row; a frame without columns yields  *)
(* no data rows (itertuples zips zero arrays).                             *)
DataframeToRows(df) ==
  << [j \in 1..Len(df.columns) |-> Some(df.columns[j])] >>
    \o (IF Len(df.columns) = 0 THEN <<>> ELSE df.rows)

(* ----------------------- create_excel_workbook -------------------------- *)
DefaultCell == [value |-> None, bold |-> FALSE, horizontal |-> "general"]

CreateExcelWorkbook == [title |-> SheetTitle, cells |-> <<>>, widths |-> <<>>]

(* ------------------------ apply_cell_formatting ------------------------- *)
ApplyCellFormatting_ZeroBased(cell, row_idx) ==
  IF row_idx = 0
  THEN [cell EXCEPT !.bold = TRUE, !.horizontal = "center"]
  ELSE [cell EXCEPT !.horizontal = "left"]

ApplyCellFormatting(cell, row_idx) ==
  IF row_idx = 1
  THEN [cell EXCEPT !.bold = TRUE, !.horizontal = "center"]
  ELSE [cell EXCEPT !.horizontal = "left"]

(* -------------------------- add_data_to_sheet --------------------------- *)
(* ws.cell(row, column, value) creates the cell and sets its value unless  *)
(* the value is None.                                                      *)
AddDataToSheet(ws, rows) ==
  LET widest == Max({Len(rows[r]) : r \in 1..Len(rows)} \cup {0})
      coords == {rc \in (1..Len(rows)) \X (1..widest) :
                   rc[2] <= Len(rows[rc[1]])}
  IN [ws EXCEPT !.cells =
        [rc \in coords |->
           ApplyCellFormatting([DefaultCell EXCEPT !.value = rows[rc[1]][rc[2]]],
                               rc[1])]]

(* ------------------------ adjust_column_widths -------------------------- *)
ColumnLetters == <<"A", "B", "C", "D", "E", "F", "G", "H">>
ColumnLetter(c) == ColumnLetters[c]

SheetRows(cells) == {rc[1] : rc \in DOMAIN cells}
SheetCols(cells) == {rc[2] : rc \in DOMAIN cells}

(* ws.columns walks the bounding rectangle of the cells, creating the      *)
(* cells that are missing in it.                                           *)
FillRectangle(cells) ==
  [rc \in SheetRows(cells) \X SheetCols(cells) |->
     IF rc \in DOMAIN cells THEN cells[rc] ELSE DefaultCell]

CellTruthy(cell) == cell.value # None /\ Len(Get(cell.value)) > 0

MaxLength_DataRowsOnly(cells, c) ==
  LET lens == {Len(Get(cells[rc].value)) :
                 rc \in {x \in DOMAIN cells :
                            x[2] = c /\ x[1] > 1 /\ CellTruthy(cells[x])}}
  IN IF lens = {} THEN 0 ELSE Max(lens)

MaxLength(cells, c) ==
  LET lens == {Len(Get(cells[rc].value)) :
                 rc \in {x \in DOMAIN cells : x[2] = c /\ CellTruthy(cells[x])}}
  IN IF lens = {} THEN 0 ELSE Max(lens)

AdjustColumnWidths_NoPadWhenEmpty(ws) ==
  LET filled == FillRectangle(ws.cells)
  IN [ws EXCEPT
        !.cells = filled,
        !.widths = [l \in {ColumnLetter(c) : c \in SheetCols(filled)} |->
                      LET c == CHOOSE k \in SheetCols(filled) : ColumnLetter(k) = l
                          m == MaxLength(filled, c)
                      IN IF m = 0 THEN 0 ELSE m + 2]]

AdjustColumnWidths(ws) ==
  LET filled == FillRectangle(ws.cells)
  IN [ws EXCEPT
        !.cells = filled,
        !.widths = [l \in {ColumnLetter(c) : c \in SheetCols(filled)} |->
                      LET c == CHOOSE k \in SheetCols(filled) : ColumnLetter(k) = l
                      IN MaxLength(filled, c) + 2]]

(* --------------------------- export_to_excel ---------------------------- *)
(* data[0] raises IndexError on an empty grid; the DataFrame constructor   *)
(* may raise ValueError; wb.save raises OSError when the file cannot be    *)
(* written (saveOk is the file system's answer).                           *)
ExportResult_EmptyFrame(grid, saveOk) ==
  LET df == IF grid = <<>> THEN DataFrame(<<>>, <<>>)
            ELSE DataFrame(Tail(grid), Head(grid))
  IN IF ~df.ok
     THEN [error |-> "ValueError", wb |-> None, file |-> None]
     ELSE LET ws == AdjustColumnWidths(
                      AddDataToSheet(CreateExcelWorkbook, DataframeToRows(df)))
          IN IF saveOk
             THEN [error |-> "none", wb |-> Some(ws), file |-> Some(ws)]
             ELSE [error |-> "OSError", wb |-> Some(ws), file |-> None]

ExportResult(grid, saveOk) ==
  IF grid = <<>>
  THEN [error |-> "IndexError", wb |-> None, file |-> None]
  ELSE LET df == DataFrame(Tail(grid), Head(grid))
       IN IF ~df.ok
          THEN [error |-> "ValueError", wb |-> None, file |-> None]
          ELSE LET ws == AdjustColumnWidths(
                           AddDataToSheet(CreateExcelWorkbook, DataframeToRows(df)))
               IN IF saveOk
                  THEN [error |-> "none", wb |-> Some(ws), file |-> Some(ws)]
                  ELSE [error |-> "OSError", wb |-> Some(ws), file |-> None]

ExportToExcel_Swallow ==
  /\ pc = "extracted"
  /\ \E saveOk \in BOOLEAN :
       LET r == ExportResult(Get(data), saveOk)
       IN /\ wb' = r.wb
          /\ file' = r.file
          /\ error' = "none"
          /\ pc' = "exported"
  /\ trace' = Append(trace, "write")
  /\ UNCHANGED <<resp, gets, html_content, soup, table, data, out>>

ExportToExcel ==
  /\ pc = "extracted"
  /\ \E saveOk \in BOOLEAN :
       LET r == ExportResult(Get(data), saveOk)
       IN /\ wb' = r.wb
          /\ file' = r.file
          /\ error' = r.error
          /\ pc' = IF r.error = "none" THEN "exported" ELSE "raised"
  /\ trace' = Append(trace, "write")
  /\ UNCHANGED <<resp, gets, html_content, soup, table, data, out>>

PrintExported ==
  /\ pc = "exported"
  /\ out' = Append(out, Msg("Data has been exported to table_data.xlsx"))
  /\ pc' = "done"
  /\ UNCHANGED <<resp, gets, html_content, soup, table, data, wb, file, error,
                 trace>>

Next ==
  \/ FetchWebpage
  \/ ReturnNoHtml
  \/ ParseHtml
  \/ Locate
  \/ ExtractTableData
  \/ ExportToExcel
  \/ PrintExported


Spec == Init /\ [][Next]_vars

(* ======================= properties of the run ========================== *)
Printed(text) == \E i \in 1..Len(out) : out[i].text = text

FetchFailed == resp # None /\ (Get(resp).neterr \/ Get(resp).status >= 400)

FetchSucceeded == resp # None /\ ~FetchFailed

Steps == <<"fetch", "parse", "locate", "extract", "write">>

IsPrefix(s, t) == Len(s) <= Len(t) /\ s = SubSeq(t, 1, Len(s))

Terminated == pc \in {"done", "raised"}

(* C1: when the HTTP GET fails (network error or status >= 400) the       *)
(* fetcher prints the diagnostic, returns None without raising, and the    *)
(* run ends with nothing parsed, located, extracted or written.            *)
C1_FetchFailureEndsRun ==
  FetchFailed =>
    /\ html_content = None
    /\ Len(out) = 1
    /\ out[1].text = "Failed to fetch the web page: "
    /\ error = "none"
    /\ pc \in {"fetched", "done"}
    /\ pc = "fetched" => (ENABLED ReturnNoHtml /\ ~ENABLED ParseHtml)
    /\ trace = <<"fetch">>
    /\ soup = None /\ table = None /\ data = None /\ wb = None /\ file = None

C1_Witness ==
  /\ FetchFailed
  /\ Get(resp).status = 404
  /\ pc = "done"

NoMatchingTable ==
  /\ soup # None
  /\ \A i \in 1..Len(Get(soup).contents) :
       LET n == Get(soup).contents[i]
       IN ~(n.tag = "table" /\ table_class \in {n.class[k] : k \in 1..Len(n.class)})

(* C2: when the fetched page was parsed and holds no table of the         *)
(* configured class, the run prints "Table not found." and never extracts  *)
(* or writes.                                                              *)
C2_TableNotFound ==
  NoMatchingTable =>
    /\ pc \in {"parsed", "done"}
    /\ pc = "done" => (out = <<Msg("Table not found.")>> /\ table = None)
    /\ ~(\E i \in 1..Len(trace) : trace[i] \in {"extract", "write"})
    /\ data = None /\ wb = None /\ file = None /\ error = "none"

C2_Witness ==
  /\ NoMatchingTable
  /\ pc = "done"
  /\ \E i \in 1..Len(Get(soup).contents) : Get(soup).contents[i].tag = "table"

IsTrimOf(t, raw) ==
  \E i \in 1..(Len(raw) + 1), j \in 0..Len(raw) :
    /\ t = SubSeq(raw, i, j)
    /\ \A k \in 1..(i - 1) : raw[k] \in Whitespace
    /\ \A k \in (j + 1)..Len(raw) : raw[k] \in Whitespace
    /\ t # <<>> => (t[1] \notin Whitespace /\ t[Len(t)] \notin Whitespace)

WellFormed(t) ==
  /\ Len(t.trs) >= 1
  /\ \A i \in 1..Len(t.trs) : Len(t.trs[i]) = Len(t.trs[1])

(* C3: for a well-formed table (at least one row, every row as long as    *)
(* the first) the saved sheet has, for every tr in document order, one     *)
(* sheet row with exactly that tr's cells, each holding the trimmed text   *)
(* of the HTML cell, and no other rows; the grid itself never makes the    *)
(* export raise.                                                           *)
C3_RoundTrip ==
  (table # None /\ WellFormed(Get(table))) =>
    /\ error \in {"none", "OSError"}
    /\ file # None =>
         LET cells == Get(file).cells
             trs == Get(table).trs
         IN /\ \A rc \in DOMAIN cells : rc[1] \in 1..Len(trs)
            /\ \A i \in 1..Len(trs) :
                 /\ {rc[2] : rc \in {x \in DOMAIN cells : x[1] = i}} = 1..Len(trs[i])
                 /\ \A j \in 1..Len(trs[i]) :
                      /\ cells[<<i, j>>].value # None
                      /\ IsTrimOf(Get(cells[<<i, j>>].value), trs[i][j])

C3_Witness ==
  /\ file # None
  /\ table # None
  /\ WellFormed(Get(table))
  /\ Len(Get(table).trs) = 2
  /\ Len(Get(table).trs[1]) = 2
  /\ Get(table).trs[2][1] = <<" ", "a", " ", "b", "\t">>
  /\ Get(file).cells[<<2, 1>>].value = Some(<<"a", " ", "b">>)
  /\ Get(file).cells[<<2, 2>>].value = Some(<<>>)

HasShortRow(grid) ==
  /\ Len(grid) >= 2
  /\ \E i \in 2..Len(grid) : Len(grid[i]) < Len(grid[1])

(* C4: a grid with a data row shorter than the header row never makes     *)
(* export_to_excel raise on account of the grid: the export completes      *)
(* (only the file system can still refuse the save).                       *)
C4_ShortRowNoCrash ==
  (data # None /\ HasShortRow(Get(data)) /\ Terminated) =>
    error \in {"none", "OSError"}

IsLongest(n, cells, c) ==
  LET col == {rc \in DOMAIN cells : rc[2] = c /\ cells[rc].value # None}
  IN /\ \A rc \in col : Len(Get(cells[rc].value)) <= n
     /\ n = 0 \/ \E rc \in col : Len(Get(cells[rc].value)) = n

(* C5: every column of the written sheet has width 2 plus the greatest    *)
(* length of a value in that column, header cell included.                 *)
C5_ColumnWidth ==
  file # None =>
    LET cells == Get(file).cells
        widths == Get(file).widths
    IN /\ DOMAIN widths = {ColumnLetter(c) : c \in SheetCols(cells)}
       /\ \A c \in SheetCols(cells) :
            widths[ColumnLetter(c)] >= 2
            /\ IsLongest(widths[ColumnLetter(c)] - 2, cells, c)

C5_Witness ==
  /\ file # None
  /\ Get(data) = << << <<>>, <<"a", " ", "b">> >>, << <<"a", " ", "b">>, <<>> >> >>
  /\ Get(file).widths = [l \in {"A", "B"} |-> 5]

ColumnEmpty(cells, c) ==
  \A rc \in DOMAIN cells :
    rc[2] = c => (cells[rc].value = None \/ Get(cells[rc].value) = <<>>)

(* C6 as stated: an entirely empty column of the written sheet gets       *)
(* width 0.                                                                *)
C6_EmptyColumnWidthZero ==
  file # None =>
    \A c \in SheetCols(Get(file).cells) :
      ColumnEmpty(Get(file).cells, c) => Get(file).widths[ColumnLetter(c)] = 0

(* C6 amended: an entirely empty column of the written sheet gets width   *)
(* 2, the padding alone.                                                   *)
C6_EmptyColumnWidthTwo ==
  file # None =>
    \A c \in SheetCols(Get(file).cells) :
      ColumnEmpty(Get(file).cells, c) => Get(file).widths[ColumnLetter(c)] = 2

C6_Witness ==
  /\ file # None
  /\ Len(Get(data)) = 2
  /\ \E c \in SheetCols(Get(file).cells) :
       /\ ColumnEmpty(Get(file).cells, c)
       /\ \E d \in SheetCols(Get(file).cells) : ~ColumnEmpty(Get(file).cells, d)

(* C7: sheet row 1 is the grid's first row, every cell of it bold and     *)
(* centered; every cell of a later row is left-aligned and not bold,       *)
(* whatever its column or value.                                           *)
C7_Formatting ==
  file # None =>
    LET cells == Get(file).cells
        header == Get(data)[1]
    IN /\ {rc[2] : rc \in {x \in DOMAIN cells : x[1] = 1}} = 1..Len(header)
       /\ \A rc \in DOMAIN cells :
            IF rc[1] = 1
            THEN /\ cells[rc].value = Some(header[rc[2]])
                 /\ cells[rc].bold
                 /\ cells[rc].horizontal = "center"
            ELSE /\ ~cells[rc].bold
                 /\ cells[rc].horizontal = "left"

C7_Witness ==
  /\ file # None
  /\ <<1, 2>> \in DOMAIN Get(file).cells
  /\ <<2, 2>> \in DOMAIN Get(file).cells
  /\ Get(file).cells[<<1, 1>>].value = Get(file).cells[<<2, 1>>].value

(* C8: a run that returns normally has printed the fetch-failure message, *)
(* "Table not found.", or "Table found!" followed by the export message.   *)
C8_NeverSilent ==
  pc = "done" =>
    \/ (Len(out) = 1 /\ out[1].text = "Failed to fetch the web page: ")
    \/ out = <<Msg("Table not found.")>>
    \/ out = <<Msg("Table found!"),
               Msg("Data has been exported to table_data.xlsx")>>

(* C9: the steps run in the order fetch, parse, locate, extract, write    *)
(* with exactly one HTTP GET; the file is saved only after a successful    *)
(* fetch, a located table and "Table found!"; the export message is        *)
(* printed only after the save; a failing writer is not caught: the run    *)
(* stops there and the export message is never printed.                    *)
C9_Order ==
  /\ IsPrefix(trace, Steps)
  /\ gets = (IF pc = "start" THEN 0 ELSE 1)
  /\ file # None =>
       /\ FetchSucceeded /\ html_content # None
       /\ table # None
       /\ Printed("Table found!")
       /\ trace = Steps
  /\ Printed("Data has been exported to table_data.xlsx") =>
       /\ file # None
       /\ out = <<Msg("Table found!"),
                  Msg("Data has been exported to table_data.xlsx")>>
  /\ (error # "none" \/ pc = "raised") =>
       /\ error # "none" /\ pc = "raised"
       /\ file = None
       /\ ~Printed("Data has been exported to table_data.xlsx")
       /\ ~ENABLED Next

C9_Witness ==
  /\ pc = "raised"
  /\ error = "OSError"
  /\ wb # None
  /\ out = <<Msg("Table found!")>>

(* C10: a located table without tr gives an empty grid, and the export    *)
(* fails with IndexError on the header row before a workbook exists:       *)
(* "Table found!" is all that was printed, no file is written and the run  *)
(* ends by the unhandled error.                                            *)
C10_EmptyTable ==
  (table # None /\ Get(table).trs = <<>>) =>
    /\ out = <<Msg("Table found!")>>
    /\ wb = None /\ file = None
    /\ pc \in {"found", "extracted", "raised"}
    /\ pc # "found" => data = Some(<<>>)
    /\ pc = "extracted" => ENABLED ExportToExcel
    /\ pc = "raised" <=> error = "IndexError"

C10_Witness ==
  /\ table # None
  /\ Get(table).trs = <<>>
  /\ pc = "raised"
  /\ error = "IndexError"
====
